---- MODULE Spec2Model ----
(***************************************************************************)
(* Model of the form-handling state machine of src/src/App.js              *)
(* (formMachine, an xstate Machine, run by useMachine with one invoked     *)
(* promise service "onSubmit").                                            *)
(*                                                                         *)
(* The interpreter processes one event to completion per step: a user     *)
(* event sent by the view (CHANGE, SUBMIT, AGAIN, or an event type the     *)
(* machine does not know) or the completion event of the invoked promise.  *)
(***************************************************************************)
EXTENDS Integers, FiniteSets, Sequences, TLC

(***************************************************************************)
(* Bounds.                                                                 *)
(***************************************************************************)
\* number of distinct field values the view can type into an input
MaxValue == 2
\* number of distinct error descriptions a rejection can carry per field
MaxMessage == 1
\* cap on the number of service calls started in one behaviour
MaxCalls == 2

(***************************************************************************)
(* Data.                                                                   *)
(***************************************************************************)
\* field keys sent as e.key by handleChange (names of inputs of the form);
\* the machine treats every key alike
Keys == {"name", "reams"}

FieldValues == 1..MaxValue
Messages == 1..MaxMessage

\* all mappings from some of the keys to elements of S (a JS object)
Mappings(S) == UNION {[D -> S] : D \in SUBSET Keys}

\* the empty object {}
EmptyObject == << >>

\* the context of the machine definition
defaultContext == [values |-> EmptyObject, errors |-> EmptyObject]

\* contexts a consumer can construct the machine with
InitialContexts ==
  {defaultContext, [values |-> [k \in {"name"} |-> 1], errors |-> [k \in {"reams"} |-> 1]]}

\* payloads a promise can resolve with
ResolvedPayloads == {TRUE, FALSE}

\* payloads a promise can reject with
RejectedPayloads == Mappings(Messages)

\* events the view can send
UserEvents == {[type |-> "CHANGE", key |-> k, value |-> v] : k \in Keys, v \in FieldValues}
                \cup {[type |-> "SUBMIT"], [type |-> "AGAIN"], [type |-> "UNKNOWN"]}

(***************************************************************************)
(* Actions of the machine options (pure functions on the context).         *)
(***************************************************************************)
\* fault: the spread of ctx.values is missing
onChange_noSpread(ctx, e) ==
  [ctx EXCEPT !.values = [k \in {e.key} |-> e.value]]

\* {...ctx.values, [e.key]: e.value}
onChange(ctx, e) ==
  [ctx EXCEPT !.values = [k \in (DOMAIN ctx.values) \cup {e.key} |->
                            IF k = e.key THEN e.value ELSE ctx.values[k]]]

\* fault: errors is not reset
clearForm_valuesOnly(ctx, e) ==
  [ctx EXCEPT !.values = EmptyObject]

clearForm(ctx, e) ==
  [ctx EXCEPT !.values = EmptyObject, !.errors = EmptyObject]

\* fault: the payload is merged into the previous errors
onError_merge(ctx, e) ==
  [ctx EXCEPT !.errors = [k \in (DOMAIN ctx.errors) \cup (DOMAIN e.data) |->
                            IF k \in DOMAIN e.data THEN e.data[k] ELSE ctx.errors[k]]]

onError(ctx, e) ==
  [ctx EXCEPT !.errors = e.data]

(***************************************************************************)
(* The state graph.                                                        *)
(***************************************************************************)
StateValues == {"editing.pristine", "editing.error", "submitting", "success"}

\* fault: only the full state value matches
matches_exact(s, tag) == s = tag

\* state.matches(tag): the state value is tag or a descendant of tag
matches(s, tag) ==
  \/ s = tag
  \/ /\ Len(s) > Len(tag)
     /\ SubSeq(s, 1, Len(tag) + 1) = tag \o "."

\* the atomic state the machine is in, with its ancestors, innermost first
path(s) ==
  IF matches(s, "editing") /\ s # "editing" THEN <<s, "editing">> ELSE <<s>>

NoTransition == [target |-> "", actions |-> << >>, handled |-> FALSE]

Handled(target, actions) == [target |-> target, actions |-> actions, handled |-> TRUE]

\* fault: CHANGE targets editing, which re-enters its initial substate
editing_on_changeReenters(type) ==
  IF type = "CHANGE" THEN Handled("editing", <<"onChange">>)
  ELSE IF type = "SUBMIT" THEN Handled("submitting", << >>)
  ELSE NoTransition

\* fault: SUBMIT resets the form on its way to submitting
editing_on_submitClears(type) ==
  IF type = "CHANGE" THEN Handled("", <<"onChange">>)
  ELSE IF type = "SUBMIT" THEN Handled("submitting", <<"clearForm">>)
  ELSE NoTransition

\* fault: submitting is addressed as a substate of editing
editing_on_nested(type) ==
  IF type = "CHANGE" THEN Handled("", <<"onChange">>)
  ELSE IF type = "SUBMIT" THEN Handled("editing.submitting", << >>)
  ELSE NoTransition

\* fault: AGAIN is handled by editing as well
editing_on_again(type) ==
  IF type = "CHANGE" THEN Handled("", <<"onChange">>)
  ELSE IF type = "SUBMIT" THEN Handled("submitting", << >>)
  ELSE IF type = "AGAIN" THEN Handled("editing.pristine", << >>)
  ELSE NoTransition

\* editing.on
editing_on(type) ==
  IF type = "CHANGE" THEN Handled("", <<"onChange">>)
  ELSE IF type = "SUBMIT" THEN Handled("submitting", << >>)
  ELSE NoTransition

\* fault: onDone resets the form on its way to success
submitting_on_doneClears(type) ==
  IF type = "done.invoke.onSubmit" THEN Handled("success", <<"clearForm">>)
  ELSE IF type = "error.platform.onSubmit" THEN Handled("editing.error", <<"onError">>)
  ELSE NoTransition

\* fault: submitting accepts edits
submitting_on_change(type) ==
  IF type = "CHANGE" THEN Handled("", <<"onChange">>)
  ELSE IF type = "done.invoke.onSubmit" THEN Handled("success", << >>)
  ELSE IF type = "error.platform.onSubmit" THEN Handled("editing.error", <<"onError">>)
  ELSE NoTransition

\* fault: AGAIN aborts a submission
submitting_on_again(type) ==
  IF type = "AGAIN" THEN Handled("editing", << >>)
  ELSE IF type = "done.invoke.onSubmit" THEN Handled("success", << >>)
  ELSE IF type = "error.platform.onSubmit" THEN Handled("editing.error", <<"onError">>)
  ELSE NoTransition

\* fault: the invoke has no onError transition
submitting_on_noError(type) ==
  IF type = "done.invoke.onSubmit" THEN Handled("success", << >>)
  ELSE NoTransition

\* submitting.invoke: onDone and onError are transitions on the completion
\* events of the invoked service
submitting_on(type) ==
  IF type = "done.invoke.onSubmit" THEN Handled("success", << >>)
  ELSE IF type = "error.platform.onSubmit" THEN Handled("editing.error", <<"onError">>)
  ELSE NoTransition

\* fault: success accepts edits
success_on_change(type) ==
  IF type = "AGAIN" THEN Handled("editing", << >>)
  ELSE IF type = "CHANGE" THEN Handled("", <<"onChange">>)
  ELSE NoTransition

\* fault: AGAIN returns to the error substate, which has no entry action
success_on_againToError(type) ==
  IF type = "AGAIN" THEN Handled("editing.error", << >>)
  ELSE NoTransition

\* success.on
success_on(type) ==
  IF type = "AGAIN" THEN Handled("editing", << >>)
  ELSE NoTransition

\* the transitions of a state node
on(node, type) ==
  IF node = "editing" THEN editing_on(type)
  ELSE IF node = "submitting" THEN submitting_on(type)
  ELSE IF node = "success" THEN success_on(type)
  ELSE NoTransition

\* the entry actions of a state node
entry(node) ==
  IF node = "editing.pristine" THEN <<"clearForm">> ELSE << >>

\* fault: editing starts in its error substate
initial_error(node) ==
  IF node = "" THEN "editing"
  ELSE IF node = "editing" THEN "editing.error"
  ELSE node

\* the initial child of a compound node; an atomic node resolves to itself
initial(node) ==
  IF node = "" THEN "editing"
  ELSE IF node = "editing" THEN "editing.pristine"
  ELSE node

\* fault: a rejected submission is retried on entering editing.error
invoke_retry(node) ==
  IF node \in {"submitting", "editing.error"} THEN {"onSubmit"} ELSE {}

\* fault: success invokes the service as well
invoke_success(node) ==
  IF node \in {"submitting", "success"} THEN {"onSubmit"} ELSE {}

\* the services a state node invokes while it is active
invoke(node) ==
  IF node = "submitting" THEN {"onSubmit"} ELSE {}

\* the implementation of a named action
exec(name, ctx, e) ==
  IF name = "onChange" THEN onChange(ctx, e)
  ELSE IF name = "clearForm" THEN clearForm(ctx, e)
  ELSE IF name = "onError" THEN onError(ctx, e)
  ELSE ctx

RECURSIVE execAll(_, _, _)
execAll(names, ctx, e) ==
  IF names = << >> THEN ctx
  ELSE execAll(Tail(names), exec(Head(names), ctx, e), e)

\* the transition selected for an event: the innermost active node that
\* handles the event type wins
RECURSIVE select(_, _)
select(nodes, type) ==
  IF nodes = << >> THEN NoTransition
  ELSE IF on(Head(nodes), type).handled THEN on(Head(nodes), type)
  ELSE select(Tail(nodes), type)

Range(f) == {f[i] : i \in DOMAIN f}

\* the nodes entered by a move from atomic state s to atomic state t,
\* outermost first (no transition of this machine targets an active node)
entered(s, t) ==
  LET new == path(t)
      rev == [i \in 1..Len(new) |-> new[Len(new) + 1 - i]]
  IN SelectSeq(rev, LAMBDA n : n \notin Range(path(s)))

exited(s, t) == {n \in Range(path(s)) : n \notin Range(path(t))}

RECURSIVE entryActions(_)
entryActions(nodes) ==
  IF nodes = << >> THEN << >>
  ELSE entry(Head(nodes)) \o entryActions(Tail(nodes))

\* the state that transition t, selected for event e in state s, leads to:
\* the target resolved to its initial atomic state, the context after the
\* transition's actions and the entry actions, the nodes left and entered
resolve(s, ctx, e, t) ==
  IF t.handled /\ t.target # ""
    THEN LET next == initial(t.target)
             ent == entered(s, next)
         IN [value |-> next,
             context |-> execAll(t.actions \o entryActions(ent), ctx, e),
             entered |-> Range(ent),
             exited |-> exited(s, next),
             changed |-> TRUE]
    ELSE [value |-> s,
          context |-> execAll(t.actions, ctx, e),
          entered |-> {},
          exited |-> {},
          changed |-> t.handled]

\* machine.transition(state, event); the selected transition is bound once
transition(s, ctx, e) ==
  CHOOSE r \in {resolve(s, ctx, e, t) : t \in {select(path(s), e.type)}} : TRUE

\* machine.initialState for a given initial context
initialState(ctx) ==
  LET s == initial(initial(""))
      ent == entered("", s)
  IN [value |-> s,
      context |-> execAll(entryActions(ent), ctx, [type |-> "xstate.init"]),
      entered |-> Range(ent),
      exited |-> {},
      changed |-> TRUE]

(***************************************************************************)
(* The running interpreter (useMachine(formMachine, {services})).          *)
(***************************************************************************)
VARIABLES
  initialContext, \* the context the machine was constructed with
  state,          \* state.value, as matched by state.matches
  context,        \* state.context: [values, errors]
  calls,          \* the onSubmit promises started so far, in order
  input,          \* the values handed to the promise started last
  submits,        \* number of SUBMIT events processed while in editing
  lastEvent       \* the event processed by the last step

vars == <<initialContext, state, context, calls, input, submits, lastEvent>>

\* indices of the promises that have not settled and were not stopped
pending(cs) == {i \in DOMAIN cs : cs[i].status = "pending"}

\* the nodes entered whose services are started
started(r) == {n \in r.entered : invoke(n) # {}}

\* stop the services of the nodes left and start those of the nodes entered
runServices(cs, r) ==
  LET stopped == [i \in DOMAIN cs |->
                    IF cs[i].status = "pending" /\ cs[i].node \in r.exited
                      THEN [cs[i] EXCEPT !.status = "stopped"]
                      ELSE cs[i]]
  IN IF started(r) = {} THEN stopped
     ELSE stopped \o <<[node |-> CHOOSE n \in started(r) : TRUE,
                        status |-> "pending",
                        events |-> 0]>>

Init ==
  /\ initialContext \in InitialContexts
  /\ LET r == initialState(initialContext)
     IN /\ state = r.value
        /\ context = r.context
        /\ calls = runServices(<< >>, r)
        /\ input = IF started(r) = {} THEN EmptyObject ELSE r.context.values
  /\ submits = 0
  /\ lastEvent = [type |-> "xstate.init"]

\* the interpreter takes over the result r of processing event e, and
\* stops and starts services; cs are the promises when the event arrived
commit(r, e, cs) ==
  /\ state' = r.value
  /\ context' = r.context
  /\ calls' = runServices(cs, r)
  /\ input' = IF started(r) = {} THEN input ELSE r.context.values
  /\ lastEvent' = e
  /\ UNCHANGED initialContext

\* the interpreter processes event e to completion
process(e, cs) ==
  \E r \in {transition(state, context, e)} : commit(r, e, cs)

\* send(event) from the view
Send(e) ==
  /\ e.type = "SUBMIT" /\ matches(state, "editing") => Len(calls) < MaxCalls
  /\ submits' = IF e.type = "SUBMIT" /\ matches(state, "editing")
                  THEN submits + 1 ELSE submits
  /\ process(e, calls)

\* promise i resolves with payload d: done.invoke.onSubmit is sent
Resolve(i, d) ==
  /\ i \in pending(calls)
  /\ UNCHANGED submits
  /\ process([type |-> "done.invoke.onSubmit", data |-> d],
             [calls EXCEPT ![i].status = "resolved", ![i].events = @ + 1])

\* promise i rejects with payload d: error.platform.onSubmit is sent
Reject(i, d) ==
  /\ i \in pending(calls)
  /\ UNCHANGED submits
  /\ process([type |-> "error.platform.onSubmit", data |-> d],
             [calls EXCEPT ![i].status = "rejected", ![i].events = @ + 1])

Next ==
  \/ \E e \in UserEvents : Send(e)
  \/ \E i \in 1..MaxCalls, d \in ResolvedPayloads : Resolve(i, d)
  \/ \E i \in 1..MaxCalls, d \in RejectedPayloads : Reject(i, d)

Spec == Init /\ [][Next]_vars

\* some pending promise settles, one way or the other
Settle ==
  \/ \E i \in 1..MaxCalls, d \in ResolvedPayloads : Resolve(i, d)
  \/ \E i \in 1..MaxCalls, d \in RejectedPayloads : Reject(i, d)

\* the machine with a service whose every call eventually settles
FairSpec == Spec /\ WF_vars(Settle)

TypeOK ==
  /\ state \in StateValues
  /\ context.values \in Mappings(FieldValues)
  /\ context.errors \in Mappings(Messages)
  /\ Len(calls) <= MaxCalls

(***************************************************************************)
(* The sample service onSubmit, and the machine run with it.               *)
(***************************************************************************)
salesTeam == {"Jim Halper", "Dwight Schrute", "Phyllis Vance", "Stanley Hudson"}

\* what the three inputs of the form can be made to hold; the number input
\* yields "" for anything that is not a number
TypedValues ==
  [name |-> {"", "Jim Halper", "Michael Scott"},
   reams |-> {"", "5", "99", "100"},
   company |-> {"", "Acme", "Dunder Mifflin"}]

FormKeys == DOMAIN TypedValues

\* handleChange and handleSubmit on the form
FormEvents ==
  {[type |-> "CHANGE", key |-> k, value |-> v] : k \in {"name"}, v \in TypedValues.name}
    \cup {[type |-> "CHANGE", key |-> k, value |-> v] : k \in {"reams"}, v \in TypedValues.reams}
    \cup {[type |-> "CHANGE", key |-> k, value |-> v] : k \in {"company"}, v \in TypedValues.company}
    \cup {[type |-> "SUBMIT"], [type |-> "AGAIN"]}

\* !values[k]: the key is missing (undefined) or holds the empty string
falsy(values, k) == k \notin DOMAIN values \/ values[k] = ""

Digits == <<"0", "1", "2", "3", "4", "5", "6", "7", "8", "9">>
isDigit(c) == \E d \in DOMAIN Digits : Digits[d] = c
digit(c) == (CHOOSE d \in DOMAIN Digits : Digits[d] = c) - 1

\* the decimal number a string of digits stands for
RECURSIVE decimal(_, _)
decimal(str, acc) ==
  IF str = "" THEN acc
  ELSE decimal(SubSeq(str, 2, Len(str)), 10 * acc + digit(SubSeq(str, 1, 1)))

\* ToNumber of a string: "" is 0, digits are their number, else NaN
ToNumber(str) ==
  IF \A i \in 1..Len(str) : isDigit(SubSeq(str, i, i))
    THEN [nan |-> FALSE, value |-> decimal(str, 0)]
    ELSE [nan |-> TRUE, value |-> 0]

\* str < n for a string and a number: the string is converted; NaN
\* compares false
lessThan(str, n) ==
  LET x == ToNumber(str) IN ~x.nan /\ x.value < n

\* the entries each check of onSubmit adds to errors
nameError(values) ==
  IF falsy(values, "name") \/ values["name"] \notin salesTeam
    THEN [k \in {"name"} |-> "That person is not in the sales team!"]
    ELSE EmptyObject

\* fault: the bound is compared with <=
reamsError_atMost(values) ==
  IF falsy(values, "reams") \/ lessThan(values["reams"], 101)
    THEN [k \in {"reams"} |-> "Not enough reams!"]
    ELSE EmptyObject

reamsError(values) ==
  IF falsy(values, "reams") \/ lessThan(values["reams"], 100)
    THEN [k \in {"reams"} |-> "Not enough reams!"]
    ELSE EmptyObject

companyError(values) ==
  IF falsy(values, "company")
    THEN [k \in {"company"} |-> "Which company did you sell to?"]
  ELSE IF values["company"] = "Dunder Mifflin"
    THEN [k \in {"company"} |-> "You can't sell to yourself!"]
  ELSE EmptyObject

\* the settlement of onSubmit({values}): rejected with errors when errors
\* has a key, resolved with true otherwise
onSubmit(values) ==
  LET errors == nameError(values) @@ reamsError(values) @@ companyError(values)
  IN IF Cardinality(DOMAIN errors) > 0
       THEN [resolved |-> FALSE, data |-> errors]
       ELSE [resolved |-> TRUE, data |-> TRUE]

\* useMachine(formMachine, {services: {onSubmit}}): the default context
SampleInit ==
  /\ initialContext = defaultContext
  /\ \E r \in {initialState(initialContext)} :
       /\ state = r.value
       /\ context = r.context
       /\ calls = runServices(<< >>, r)
       /\ input = IF started(r) = {} THEN EmptyObject ELSE r.context.values
  /\ submits = 0
  /\ lastEvent = [type |-> "xstate.init"]

\* the promise of onSubmit, started with input, returns true
SampleResolve(i) ==
  /\ i \in pending(calls)
  /\ onSubmit(input).resolved
  /\ UNCHANGED submits
  /\ process([type |-> "done.invoke.onSubmit", data |-> onSubmit(input).data],
             [calls EXCEPT ![i].status = "resolved", ![i].events = @ + 1])

\* the promise of onSubmit, started with input, rejects with its errors
SampleReject(i) ==
  /\ i \in pending(calls)
  /\ ~onSubmit(input).resolved
  /\ UNCHANGED submits
  /\ process([type |-> "error.platform.onSubmit", data |-> onSubmit(input).data],
             [calls EXCEPT ![i].status = "rejected", ![i].events = @ + 1])

SampleNext ==
  \/ \E e \in FormEvents : Send(e)
  \/ \E i \in 1..MaxCalls : SampleResolve(i)
  \/ \E i \in 1..MaxCalls : SampleReject(i)

\* the application: the machine run with the sample service
SampleSpec == SampleInit /\ [][SampleNext]_vars

(***************************************************************************)
(* The view: what Index renders for a state value.                         *)
(***************************************************************************)
\* the form with its inputs and the Submit button is rendered
showForm(s) == matches(s, "editing") \/ matches(s, "submitting")

\* isLoading of the Submit button
submitLoading(s) == matches(s, "submitting")

\* the success message with the "Add more sales" button is rendered
showSuccess(s) == matches(s, "success")

\* isLoading of the "Add more sales" button
againLoading(s) == matches(s, "editing.submitting")

(***************************************************************************)
(* Properties.  A step that processes event e is a step with               *)
(* lastEvent' = e; the unprimed variables are the state it was sent in.    *)
(***************************************************************************)
Editing == {"editing.pristine", "editing.error"}

\* C1: a freshly constructed machine with the default context, before any
\* event is dispatched, is in editing.pristine with values = {} and
\* errors = {}, and no onSubmit call has been started.
C1_InitialState ==
  lastEvent.type = "xstate.init" /\ initialContext = defaultContext
    => /\ state = "editing.pristine"
       /\ context.values = EmptyObject
       /\ context.errors = EmptyObject
       /\ calls = << >>

C1_Witness ==
  /\ lastEvent.type = "xstate.init"
  /\ initialContext = defaultContext
  /\ state = "editing.pristine"

\* C2: CHANGE{key: k, value: v} processed in either substate of editing
\* yields values' = values with k mapped to v: k is added or overwritten
\* and every other key keeps its value.
C2_ChangeWritesKey ==
  [][\A e \in UserEvents :
       e.type = "CHANGE" /\ lastEvent' = e /\ state \in Editing
         => /\ DOMAIN context'.values = (DOMAIN context.values) \cup {e.key}
            /\ context'.values[e.key] = e.value
            /\ \A k \in (DOMAIN context.values) \ {e.key} :
                 context'.values[k] = context.values[k]]_vars

\* a CHANGE has overwritten one key while another key, written earlier
\* with a different value, is still there
C2_Witness ==
  /\ lastEvent.type = "CHANGE"
  /\ state \in Editing
  /\ DOMAIN context.values = Keys
  /\ \E k \in Keys : k # lastEvent.key /\ context.values[k] # lastEvent.value

\* C3: a CHANGE processed in editing leaves the substate and errors
\* unchanged and does not re-run clearForm: no key entered before is lost.
C3_ChangeKeepsSubstateAndErrors ==
  [][lastEvent'.type = "CHANGE" /\ state \in Editing
       => /\ state' = state
          /\ context'.errors = context.errors
          /\ (DOMAIN context.values) \subseteq (DOMAIN context'.values)]_vars

\* a CHANGE of a key that has a stored error, processed in editing.error
C3_Witness ==
  /\ lastEvent.type = "CHANGE"
  /\ state = "editing.error"
  /\ lastEvent.key \in DOMAIN context.errors
  /\ Cardinality(DOMAIN context.values) > 1

\* C4: SUBMIT processed in editing.pristine or editing.error moves the
\* machine to submitting and leaves values and errors as they were.
C4_SubmitKeepsContext ==
  [][lastEvent'.type = "SUBMIT" /\ state \in Editing
       => /\ state' = "submitting"
          /\ context'.values = context.values
          /\ context'.errors = context.errors]_vars

\* a resubmission that carries the errors of an earlier rejection
C4_Witness ==
  /\ lastEvent.type = "SUBMIT"
  /\ state = "submitting"
  /\ context.errors # EmptyObject
  /\ context.values # EmptyObject

\* C5: when the onSubmit promise resolves, the machine moves from
\* submitting to success and values and errors are unchanged, whatever the
\* resolved payload.
C5_ResolveKeepsContext ==
  [][lastEvent'.type = "done.invoke.onSubmit"
       => /\ state = "submitting"
          /\ state' = "success"
          /\ context'.values = context.values
          /\ context'.errors = context.errors]_vars

\* success reached with values and stale errors in the context
C5_Witness ==
  /\ lastEvent.type = "done.invoke.onSubmit"
  /\ state = "success"
  /\ context.values # EmptyObject
  /\ context.errors # EmptyObject

\* C6: when the onSubmit promise rejects with payload P, the machine moves
\* from submitting to editing.error, errors becomes exactly P (nothing of
\* the previous errors survives unless P has it) and values is the values
\* held when the SUBMIT was sent, which the service was started with.
C6_RejectReplacesErrors ==
  [][lastEvent'.type = "error.platform.onSubmit"
       => /\ state = "submitting"
          /\ state' = "editing.error"
          /\ context'.errors = lastEvent'.data
          /\ context'.values = context.values
          /\ context'.values = input]_vars

\* a second rejection whose payload lacks a key: the key is not in errors
C6_Witness ==
  /\ lastEvent.type = "error.platform.onSubmit"
  /\ state = "editing.error"
  /\ Len(calls) = 2
  /\ calls[1].status = "rejected"
  /\ DOMAIN context.errors = {"name"}
  /\ context.values # EmptyObject

\* C7: every entry into editing.pristine leaves values = {} and
\* errors = {}: the initial entry at construction, whatever context the
\* machine was constructed with, and the entry by AGAIN from success,
\* whatever values and stale errors success held.
C7_PristineEntryClears ==
  /\ [](lastEvent.type = "xstate.init"
          => state = "editing.pristine" /\ context = defaultContext)
  /\ [][(lastEvent'.type = "AGAIN" /\ state = "success")
          \/ (state # "editing.pristine" /\ state' = "editing.pristine")
          => state' = "editing.pristine" /\ context' = defaultContext]_vars

\* AGAIN has reset a machine that was constructed with a non-empty context
\* and went through a rejection before it succeeded
C7_Witness ==
  /\ lastEvent.type = "AGAIN"
  /\ state = "editing.pristine"
  /\ initialContext # defaultContext
  /\ Len(calls) = 2
  /\ calls[1].status = "rejected"
  /\ calls[2].status = "resolved"

\* C8: in submitting and in success, SUBMIT and CHANGE change neither the
\* state nor values nor errors and start no service call; the machine
\* leaves submitting only on a completion event of the service.
C8_LockedWhileSubmitting ==
  [][/\ state \in {"submitting", "success"} /\ lastEvent'.type \in {"SUBMIT", "CHANGE"}
          => state' = state /\ context' = context /\ calls' = calls /\ input' = input
     /\ state = "submitting" /\ state' # "submitting"
          => lastEvent'.type \in {"done.invoke.onSubmit", "error.platform.onSubmit"}]_vars

\* a CHANGE was sent while the call is in flight
C8_Witness ==
  /\ lastEvent.type = "CHANGE"
  /\ state = "submitting"
  /\ pending(calls) # {}
  /\ lastEvent.key \notin DOMAIN context.values

\* C9: an event the state does not handle (an unknown type in any state,
\* AGAIN in editing or submitting) leaves state, values and errors
\* unchanged and neither starts nor stops a service call.
C9_UnhandledIsNoOp ==
  [][lastEvent'.type = "UNKNOWN" \/ (lastEvent'.type = "AGAIN" /\ state # "success")
       => state' = state /\ context' = context /\ calls' = calls /\ input' = input]_vars

\* AGAIN was sent in editing.error with errors present
C9_Witness ==
  /\ lastEvent.type = "AGAIN"
  /\ state = "editing.error"
  /\ context.errors # EmptyObject
  /\ context.values # EmptyObject

\* C10: the service is called once per entry into submitting and never
\* otherwise: the calls started are as many as the SUBMIT events processed
\* in editing, at most one call is in flight, a call is in flight exactly
\* when the state is submitting, no call is stopped, and a call has
\* delivered one completion event once it settled and none before.
C10_OneCallPerSubmit ==
  /\ Len(calls) = submits
  /\ Cardinality(pending(calls)) <= 1
  /\ (pending(calls) # {}) <=> (state = "submitting")
  /\ \A i \in DOMAIN calls :
       /\ calls[i].status \in {"pending", "resolved", "rejected"}
       /\ calls[i].events = IF calls[i].status = "pending" THEN 0 ELSE 1
       /\ calls[i].status = "pending" => i = Len(calls)

\* a second call is in flight after the first one was rejected
C10_Witness ==
  /\ Len(calls) = 2
  /\ calls[1].status = "rejected"
  /\ calls[2].status = "pending"
  /\ state = "submitting"
  /\ submits = 2

\* C11 as stated: errors is non-empty only in editing.error, that is,
\* errors = {} in editing.pristine, submitting and success.
C11_ErrorsOnlyInError ==
  state # "editing.error" => context.errors = EmptyObject

\* C11, as the machine has it: errors = {} in editing.pristine; where
\* errors is non-empty the state is editing.error, submitting or success
\* and some earlier call was rejected (in submitting and success errors is
\* the leftover of that rejection, kept by SUBMIT and by the resolution).
C11_ErrorsNeedRejection ==
  /\ state = "editing.pristine" => context.errors = EmptyObject
  /\ context.errors # EmptyObject
       => /\ state \in {"editing.error", "submitting", "success"}
          /\ \E i \in DOMAIN calls : calls[i].status = "rejected"

\* success holds the errors of the rejection that preceded it
C11_Witness ==
  /\ state = "success"
  /\ context.errors # EmptyObject
  /\ Len(calls) = 2
  /\ calls[1].status = "rejected"
  /\ calls[2].status = "resolved"

Completions == {"done.invoke.onSubmit", "error.platform.onSubmit"}

\* C12 as stated: once submitting is entered, the completion event of its
\* call is processed before any event sent after the SUBMIT, that is, the
\* next event processed in submitting is the completion event.
C12_CompletionProcessedFirst ==
  [][state = "submitting" => lastEvent'.type \in Completions]_vars

\* C12, as the machine has it: an event sent after the SUBMIT while the
\* call is pending is processed at once, before the completion event, and
\* is ignored; the completion event of the entry's call is the first event
\* after the SUBMIT that changes anything, and it is processed while the
\* machine is still in that entry of submitting.
C12_CompletionFirstToTakeEffect ==
  [][state = "submitting"
       => IF lastEvent'.type \in Completions
            THEN /\ calls[Len(calls)].status = "pending"
                 /\ calls'[Len(calls)].status \in {"resolved", "rejected"}
                 /\ state' \in {"success", "editing.error"}
            ELSE /\ state' = state
                 /\ context' = context
                 /\ calls' = calls
                 /\ input' = input]_vars

\* an event sent after the second SUBMIT was processed while that call
\* is still pending
C12_Witness ==
  /\ state = "submitting"
  /\ lastEvent.type = "AGAIN"
  /\ Len(calls) = 2
  /\ calls[2].status = "pending"

\* C13: if every service call eventually settles, the machine, whenever it
\* is in submitting, eventually reaches success or editing.error, whatever
\* events are sent in the meantime; and a step that is not the settling of
\* the call never takes the machine out of submitting, so with a call that
\* never settles it stays there for ever.
C13_SubmittingSettles ==
  /\ (state = "submitting") ~> (state \in {"success", "editing.error"})
  /\ [][state = "submitting" /\ lastEvent'.type \notin Completions
          => state' = "submitting" /\ pending(calls') = pending(calls)]_vars

\* the second submission has settled, after events were ignored or not
C13_Witness ==
  /\ state \in {"success", "editing.error"}
  /\ lastEvent.type \in Completions
  /\ Len(calls) = 2
  /\ pending(calls) = {}

\* C14: a rejected submission is not retried: in editing.error no step
\* starts or settles a call and the machine stays in editing.error under
\* CHANGE, AGAIN and unknown events; only a SUBMIT leaves it, and that
\* SUBMIT enters submitting and starts exactly one new call.
C14_NoRetry ==
  [][state = "editing.error"
       => IF lastEvent'.type = "SUBMIT"
            THEN /\ state' = "submitting"
                 /\ Len(calls') = Len(calls) + 1
                 /\ calls'[Len(calls')].status = "pending"
                 /\ \A i \in DOMAIN calls : calls'[i] = calls[i]
            ELSE /\ state' = "editing.error"
                 /\ calls' = calls
                 /\ lastEvent'.type \in {"CHANGE", "AGAIN", "UNKNOWN"}]_vars

\* the resubmission after a rejection has started the second call
C14_Witness ==
  /\ lastEvent.type = "SUBMIT"
  /\ state = "submitting"
  /\ Len(calls) = 2
  /\ calls[1].status = "rejected"
  /\ calls[2].status = "pending"
  /\ context.errors # EmptyObject

\* the step enters editing.pristine
EntersPristine == state # "editing.pristine" /\ state' = "editing.pristine"

\* C15: values changes only in a step that processes CHANGE in editing or
\* enters editing.pristine, and errors only in a step that processes a
\* rejection or enters editing.pristine; every other step keeps both.
\* Step by step errors is {} on entry into editing.pristine, else the
\* payload if the step is a rejection, else what it was, and it is {}
\* at construction: so errors is the payload of the latest rejection
\* since the last entry into editing.pristine, or {} if there was none.
C15_ContextChangesOnlyByActions ==
  /\ [](lastEvent.type = "xstate.init" => context.errors = EmptyObject)
  /\ [][/\ context'.values # context.values
             => \/ lastEvent'.type = "CHANGE" /\ state \in Editing
                \/ EntersPristine
        /\ context'.errors # context.errors
             => \/ lastEvent'.type = "error.platform.onSubmit"
                \/ EntersPristine
        /\ context'.errors =
             IF EntersPristine THEN EmptyObject
             ELSE IF lastEvent'.type = "error.platform.onSubmit" THEN lastEvent'.data
             ELSE context.errors]_vars

\* a second rejection has replaced the errors of the first, with values
\* typed in between
C15_Witness ==
  /\ lastEvent.type = "error.platform.onSubmit"
  /\ state = "editing.error"
  /\ Len(calls) = 2
  /\ calls[1].status = "rejected"
  /\ context.errors = lastEvent.data
  /\ DOMAIN context.errors = {"reams"}
  /\ DOMAIN context.values = Keys

\* the number each string the reams input can hold stands for
ReamsTyped == ("" :> 0) @@ ("5" :> 5) @@ ("99" :> 99) @@ ("100" :> 100)

\* the fields of values that fail the sample validation
NameFails(v) == "name" \notin DOMAIN v \/ v["name"] \notin salesTeam
ReamsFails(v) == "reams" \notin DOMAIN v \/ ReamsTyped[v["reams"]] < 100
CompanyFails(v) ==
  "company" \notin DOMAIN v \/ v["company"] = "" \/ v["company"] = "Dunder Mifflin"
FailingFields(v) ==
  {k \in {"name"} : NameFails(v)} \cup {k \in {"reams"} : ReamsFails(v)}
    \cup {k \in {"company"} : CompanyFails(v)}

\* C16: onSubmit resolves, with true, exactly when name is in salesTeam,
\* reams is present and not below 100 and company is non-empty and not
\* "Dunder Mifflin"; otherwise it rejects with errors for exactly the
\* failing fields, never with an empty mapping.  With it wired into the
\* machine errors is non-empty whenever the state is editing.error.
C16_SampleSubmit ==
  /\ lastEvent.type = "done.invoke.onSubmit"
       => FailingFields(input) = {} /\ lastEvent.data = TRUE
  /\ lastEvent.type = "error.platform.onSubmit"
       => /\ FailingFields(input) # {}
          /\ DOMAIN lastEvent.data = FailingFields(input)
          /\ lastEvent.data # EmptyObject
  /\ state = "editing.error" => context.errors # EmptyObject
  /\ state = "success" => FailingFields(input) = {}

\* a submission with exactly 100 reams, a sales person and a customer was
\* accepted after a submission with 99 reams had been rejected
C16_Witness ==
  /\ state = "success"
  /\ lastEvent.type = "done.invoke.onSubmit"
  /\ input = [name |-> "Jim Halper", reams |-> "100", company |-> "Acme"]
  /\ Len(calls) = 2
  /\ calls[1].status = "rejected"
  /\ context.errors = [reams |-> "Not enough reams!"]

\* C17: in every reachable state exactly one of the two views is
\* rendered: the form exactly when the state is under editing or is
\* submitting, the success message exactly when the state is success; the
\* Submit button is loading exactly when the state is submitting.
C17_OneViewRendered ==
  /\ showForm(state) # showSuccess(state)
  /\ showForm(state) <=> state \in Editing \cup {"submitting"}
  /\ showSuccess(state) <=> state = "success"
  /\ submitLoading(state) <=> state = "submitting"

\* the form is shown, with errors, and its button is not loading
C17_Witness ==
  /\ state = "editing.error"
  /\ showForm(state)
  /\ ~showSuccess(state)
  /\ ~submitLoading(state)
  /\ context.errors # EmptyObject

\* C20: no reachable state matches "editing.submitting", so isLoading of
\* the "Add more sales" button is false in every reachable state, also
\* while the button is visible in success.
C20_AgainNeverLoading ==
  /\ ~matches(state, "editing.submitting")
  /\ ~againLoading(state)
  /\ state = "submitting" => ~matches(state, "editing")

\* the "Add more sales" button is visible and not loading
C20_Witness ==
  /\ state = "success"
  /\ showSuccess(state)
  /\ ~againLoading(state)
  /\ lastEvent.type = "done.invoke.onSubmit"

\* values is what the call started last was given
Frozen == context.values = input

\* C18: values is frozen while a submission is in flight and after it:
\* it equals the values handed to the service from the SUBMIT that enters
\* submitting until the machine leaves success or processes a CHANGE in
\* editing.error; in success the call started last has resolved and was
\* given exactly the current values.
C18_ValuesFrozen ==
  /\ [](state \in {"submitting", "success"} => Frozen)
  /\ [](state = "success"
          => calls # << >> /\ calls[Len(calls)].status = "resolved")
  /\ [][/\ lastEvent'.type = "SUBMIT" /\ state \in Editing
             => context'.values = input' /\ input' = context.values
        /\ (/\ state \in {"submitting", "success", "editing.error"}
            /\ Frozen
            /\ ~(state = "success" /\ state' # "success")
            /\ ~(state = "editing.error" /\ lastEvent'.type = "CHANGE"))
             => context'.values = input' /\ input' = input]_vars

\* after a rejection the values are still those the call was given, and an
\* ignored event has been processed since
C18_Witness ==
  /\ state = "editing.error"
  /\ lastEvent.type = "UNKNOWN"
  /\ Frozen
  /\ DOMAIN context.values = Keys
  /\ calls[Len(calls)].status = "rejected"

\* C19: editing.pristine is entered only at construction and by AGAIN from
\* success, editing.error only by a rejection in submitting; in
\* editing.pristine errors = {}; once a call was started the machine is in
\* editing.pristine only if the call started last resolved (so not after a
\* rejection until a later submission resolves and AGAIN is sent), and it
\* is in success only if that call resolved: with a service that always
\* rejects neither is reached again.
C19_EntriesOfEditing ==
  /\ [](lastEvent.type = "xstate.init" => state = "editing.pristine")
  /\ [](state = "editing.pristine" => context.errors = EmptyObject)
  /\ [](state \in {"editing.pristine", "success"} /\ calls # << >>
          => calls[Len(calls)].status = "resolved")
  /\ [](state = "editing.error"
          => calls # << >> /\ calls[Len(calls)].status = "rejected")
  /\ [][/\ state # "editing.pristine" /\ state' = "editing.pristine"
             => lastEvent'.type = "AGAIN" /\ state = "success"
        /\ state # "editing.error" /\ state' = "editing.error"
             => lastEvent'.type = "error.platform.onSubmit" /\ state = "submitting"]_vars

\* back in editing.pristine: a rejection, then a resolution, then AGAIN
C19_Witness ==
  /\ state = "editing.pristine"
  /\ Len(calls) = 2
  /\ calls[1].status = "rejected"
  /\ calls[2].status = "resolved"
  /\ lastEvent.type = "AGAIN"
  /\ context = defaultContext

====
